---- MODULE Spec2Model ----
(***************************************************************************)
(* Model of the radix-router of src/index.ts (lines 1-210): RadixRouter,   *)
(* Tree, Params, Param, Node and Leaf.                                     *)
(*                                                                         *)
(* A JavaScript string is a sequence of one-character strings; indices are *)
(* 0-based as in the source.  A Tree's nested nodeByPathFragment/childTree *)
(* records are kept as one function from path fragment to node: the key of *)
(* a child is path.slice(0, i) and the key of its parent path.slice(0,     *)
(* i - 1) of the same string (both loops only rewrite the string behind    *)
(* the current index), so a node is in the childTree of the node whose key *)
(* is its own key less the last character, and nowhere else.               *)
(***************************************************************************)
EXTENDS Integers, Sequences, FiniteSets, TLC

VARIABLES treeByMethod, notFondHandler, registered, last

vars == <<treeByMethod, notFondHandler, registered, last>>

----------------------------------------------------------------------------
(* Bounds and input sets *)

\* number of get() calls that run to completion in one behaviour
MaxRoutes == 2

\* A handler is an opaque function of which only the identity counts: the
\* k-th registration that completes brings a function of its own, "h<k>".
FunctionArg(name) == [type |-> "function", v |-> name]

\* the value the tests pass where a path or a handler of the wrong type is due
NumberArg == [type |-> "number", v |-> <<>>]

HandlerArgs(k) == {FunctionArg("h" \o ToString(k)), NumberArg}

\* what lookup() is called with as method; "constructor" is a property that
\* every object literal inherits from Object.prototype
Methods == {"GET", "POST", "constructor"}

ObjectPrototypeKeys == {"constructor"}

\* paths passed to get(): literal routes, routes with dynamic segments, and
\* paths that validation refuses
ValidRegPaths ==
  { <<"/">>,
    <<"/", "a">>,
    <<"/", "b">>,
    <<"/", "a", "/", "b">>,
    <<"/", "a", "/", ":", "x">>,
    <<"/", "a", "/", ":", "y">>,
    <<"/", ":", "x">>,
    <<"/", "a", "/", ":", "x", "/", "b">>,
    <<"/", "a", "/", ":", "x", "/", "b", "/", ":", "y">> }

InvalidRegPaths ==
  { <<"a">>,
    <<"/", "a", "/">>,
    <<"/", "a", "/", ":">> }

PathArgs ==
  [type : {"string"}, v : ValidRegPaths \cup InvalidRegPaths] \cup {NumberArg}

\* paths passed to lookup()
LookupPaths ==
  { <<>>,
    <<"a">>,
    <<"/">>,
    <<"/", "/">>,
    <<"/", "a">>,
    <<"/", "a", "/">>,
    <<"/", "a", "/", "/">>,
    <<"/", "b">>,
    <<"/", "1">>,
    <<"/", "a", "/", "b">>,
    <<"/", "a", "/", "b", "/">>,
    <<"/", "a", "/", "1">>,
    <<"/", "a", "/", "1", "/">>,
    <<"/", "a", "/", "1", "2">>,
    <<"/", "a", "/", "1", "?", "b">>,
    <<"/", "a", "/", "1", "/", "b">>,
    <<"/", "a", "/", "1", "/", "b", "/", "2">> }

----------------------------------------------------------------------------
(* String primitives of the language, 0-based *)

Min(a, b) == IF a < b THEN a ELSE b

\* s.slice(a, b) for 0 <= a, 0 <= b
slice(s, a, b) == SubSeq(s, a + 1, Min(b, Len(s)))

\* s.indexOf(ch, from) for a one-character ch and from >= 0
indexOf(s, ch, from) ==
  LET hits == {k \in from .. Len(s) - 1 : s[k + 1] = ch}
  IN IF hits = {} THEN -1 ELSE CHOOSE k \in hits : \A j \in hits : k <= j

startsWith(s, ch) == Len(s) >= 1 /\ s[1] = ch

endsWith(s, ch) == Len(s) >= 1 /\ s[Len(s)] = ch

----------------------------------------------------------------------------
(* Params, Param *)

\* node.param of a node that no parameter was attached to
NoParam == [name |-> <<>>, startIndex |-> -1, endIndex |-> -1]

Param(name, startIndex, endIndex) ==
  [name |-> name, startIndex |-> startIndex, endIndex |-> endIndex]

\* the terminator search shared by #parseParams (from the ':') and
\* #traverseForHandler (from the first character of the value)
paramEndIndex(path, from) ==
  LET bySlash == indexOf(path, "/", from)
      byQuery == indexOf(path, "?", from)
  IN IF bySlash # -1 THEN bySlash
     ELSE IF byQuery # -1 THEN byQuery
     ELSE Len(path)

RECURSIVE parseParamsFrom(_, _, _)
parseParamsFrom(path, nextParamEndIndex, foundParams) ==
  LET nextParamStartIndex == indexOf(path, ":", nextParamEndIndex)
  IN IF ~(0 < nextParamStartIndex) THEN foundParams
     ELSE LET endIndex == paramEndIndex(path, nextParamStartIndex)
              paramName == slice(path, nextParamStartIndex + 1, endIndex)
          IN parseParamsFrom(path, endIndex,
               Append(foundParams, Param(paramName, nextParamStartIndex, endIndex)))

parseParams(path) == parseParamsFrom(path, 0, <<>>)

hasAtPathIndex(foundParams, index) ==
  \E k \in 1 .. Len(foundParams) : foundParams[k].startIndex = index

getAtPathIndex(foundParams, index) ==
  LET ks == {k \in 1 .. Len(foundParams) : foundParams[k].startIndex = index}
  IN foundParams[CHOOSE k \in ks : \A j \in ks : k <= j]

----------------------------------------------------------------------------
(* Node, Leaf *)

Node(pathFragment) == [isLeaf |-> FALSE, handler |-> "none", param |-> NoParam]

Leaf(pathFragment, handler) == [isLeaf |-> TRUE, handler |-> handler, param |-> NoParam]

\* new Tree(): no node
EmptyTree == [f \in {} |-> Node(<<>>)]

----------------------------------------------------------------------------
(* Tree *)

\* the local `node` of both loops before its first assignment
UndefinedNode == [defined |-> FALSE, key |-> <<>>]

NodeAt(pathFragment) == [defined |-> TRUE, key |-> pathFragment]

\* Tree.#buildTree, "remove parameter from path": the pattern without the
\* characters from i up to the parameter's endIndex
buildRemoveParameter(path, i, endIndex) ==
  slice(path, 0, i) \o slice(path, endIndex, Len(path))

\* Tree.#buildTree: the loop from position i on.  `node` is the node of the
\* previous iteration.  Assigning node.param while node is undefined throws a
\* TypeError, which ends the call with the tree as it is by then.
RECURSIVE buildTreeFrom(_, _, _, _, _, _)
buildTreeFrom(tree, path, params, node, i, handler) ==
  IF ~(i <= Len(path)) THEN [tree |-> tree, threw |-> FALSE]
  ELSE IF hasAtPathIndex(params, i) /\ ~node.defined THEN [tree |-> tree, threw |-> TRUE]
  ELSE
    LET has == hasAtPathIndex(params, i)
        param == IF has THEN getAtPathIndex(params, i) ELSE NoParam
        tree1 == IF has THEN [tree EXCEPT ![node.key].param = param] ELSE tree
        path1 == IF has THEN buildRemoveParameter(path, i, param.endIndex) ELSE path
        pathFragment == slice(path1, 0, i)
        isLeaf == (i = Len(path1))
        tree2 == IF pathFragment \in DOMAIN tree1 THEN tree1
                 ELSE tree1 @@ (pathFragment :>
                        (IF isLeaf THEN Leaf(pathFragment, handler) ELSE Node(pathFragment)))
    IN buildTreeFrom(tree2, path1, params, NodeAt(pathFragment), i + 1, handler)

\* Tree.build / Tree.#buildTree
buildTree(tree, path, handler) ==
  buildTreeFrom(tree, path, parseParams(path), UndefinedNode, 1, handler)

\* parsedParams[name] = value: a new key goes last, an old key keeps its place
setParam(parsedParams, name, value) ==
  IF \E k \in 1 .. Len(parsedParams) : parsedParams[k].name = name
  THEN [k \in 1 .. Len(parsedParams) |->
          IF parsedParams[k].name = name
          THEN [name |-> name, value |-> value]
          ELSE parsedParams[k]]
  ELSE Append(parsedParams, [name |-> name, value |-> value])

\* the loop left one position early
traverseStopsEarly(i, path) == i < Len(path)

\* Tree.#traverseForHandler: the condition of the while loop
traverseContinues(i, path) == i <= Len(path)

\* the value taken from the position of the node itself
nextPositionAtNode(i) == i

\* Tree.#traverseForHandler: where the value of a parameter attached to the
\* node of position i starts
nextPositionOf(i) == i + 1

\* the rest of the request path lost with the value
traverseRemoveParameterAndRest(path, i, paramValueEndIndex) == slice(path, 0, i + 1)

\* Tree.#traverseForHandler, "remove parameter from path": the request path
\* without the characters of the parameter's value
traverseRemoveParameter(path, i, paramValueEndIndex) ==
  slice(path, 0, i + 1) \o slice(path, paramValueEndIndex, Len(path))

\* Tree.#traverseForHandler: the loop from position i on; the result is the
\* value of `node` and of parsedParams when the loop is left
RECURSIVE traverseFrom(_, _, _, _, _)
traverseFrom(tree, path, parsedParams, node, i) ==
  IF ~traverseContinues(i, path) THEN [node |-> node, parsedParams |-> parsedParams]
  ELSE
    LET pathFragment == slice(path, 0, i)
    IN IF pathFragment \notin DOMAIN tree
       THEN [node |-> UndefinedNode, parsedParams |-> parsedParams]
       ELSE
         LET n == tree[pathFragment]
             has == n.param # NoParam
             nextPosition == nextPositionOf(i)
             paramValueEndIndex == paramEndIndex(path, nextPosition)
             paramValue == slice(path, nextPosition, paramValueEndIndex)
             parsedParams1 == IF has THEN setParam(parsedParams, n.param.name, paramValue)
                              ELSE parsedParams
             path1 == IF has THEN traverseRemoveParameter(path, i, paramValueEndIndex)
                      ELSE path
         IN traverseFrom(tree, path1, parsedParams1, NodeAt(pathFragment), i + 1)

NoResult == [found |-> FALSE, handler |-> "none", parsedParams |-> <<>>]

\* Tree.traverse / Tree.#traverseForHandler
traverseForHandler(tree, path) ==
  LET r == traverseFrom(tree, path, <<>>, UndefinedNode, 1)
  IN IF r.node.defined /\ tree[r.node.key].isLeaf
     THEN [found |-> TRUE, handler |-> tree[r.node.key].handler,
           parsedParams |-> r.parsedParams]
     ELSE NoResult

----------------------------------------------------------------------------
(* RadixRouter *)

\* this.#treeByMethod[method]: #treeByMethod is an object literal, so a key it
\* does not own is read from Object.prototype
treeOfMethod(tbm, method) ==
  IF method \in DOMAIN tbm THEN "own"
  ELSE IF method \in ObjectPrototypeKeys THEN "inherited"
  ELSE "undefined"

\* the request path taken as it comes
clearPathKeepsSlash(path) == path

clearPath(path) ==
  IF Len(path) > 1 /\ endsWith(path, "/") THEN slice(path, 0, Len(path) - 1) ELSE path

\* validation without the assertion on a final ":"
validatePathWithoutColonCheck(pathArg) ==
  IF pathArg.type # "string" THEN "path must be a string"
  ELSE IF ~startsWith(pathArg.v, "/") THEN "path must start with /"
  ELSE IF Len(pathArg.v) > 1 /\ endsWith(pathArg.v, "/") THEN "path can't end with /"
  ELSE "ok"

\* the message of the first assertion that fails, or "ok"
validatePath(pathArg) ==
  IF pathArg.type # "string" THEN "path must be a string"
  ELSE IF ~startsWith(pathArg.v, "/") THEN "path must start with /"
  ELSE IF Len(pathArg.v) > 1 /\ endsWith(pathArg.v, "/") THEN "path can't end with /"
  ELSE IF endsWith(pathArg.v, ":") THEN "path can't end with :"
  ELSE "ok"

validateHandler(handlerArg) ==
  IF handlerArg.type # "function" THEN "handler must be a function" ELSE "ok"

\* RadixRouter.#buildTree
routerBuildTree(tbm, method, path, handler) ==
  LET tbm1 == IF treeOfMethod(tbm, method) = "own" THEN tbm
              ELSE tbm @@ (method :> EmptyTree)
      r == buildTree(tbm1[method], path, handler)
  IN [treeByMethod |-> [tbm1 EXCEPT ![method] = r.tree], threw |-> r.threw]

\* RadixRouter.#traverseForHandler, the method's tree being its own
routerTraverseForHandler(tbm, method, path) ==
  IF treeOfMethod(tbm, method) = "own" THEN traverseForHandler(tbm[method], path)
  ELSE NoResult

UndefinedArg == [defined |-> FALSE, params |-> <<>>]

ParamsArg(parsedParams) == [defined |-> TRUE, params |-> parsedParams]

\* what one lookup() does: it throws, or it calls one function with one argument
lookupEffect(tbm, notFound, method, path) ==
  IF treeOfMethod(tbm, method) = "inherited"
  THEN [outcome |-> "TypeError", calls |-> <<>>]
  ELSE LET traversedResult == routerTraverseForHandler(tbm, method, clearPath(path))
       IN IF traversedResult.found
          THEN [outcome |-> "ok",
                calls |-> <<[fn |-> traversedResult.handler,
                             arg |-> ParamsArg(traversedResult.parsedParams)]>>]
          ELSE [outcome |-> "ok", calls |-> <<[fn |-> notFound, arg |-> UndefinedArg]>>]

----------------------------------------------------------------------------
(* The router as a state machine *)

NotFoundArgs == {"noopFn", "notFoundCb"}

Init ==
  /\ treeByMethod = [m \in {} |-> EmptyTree]
  /\ notFondHandler \in NotFoundArgs
  /\ registered = <<>>
  /\ last = [op |-> "new", method |-> "none", pathType |-> "string", path |-> <<>>,
             handlerType |-> "function", handler |-> "none",
             outcome |-> "ok", message |-> "", calls |-> <<>>]

\* router.get(path, handler) = #register('GET', path, handler)
get(pathArg, handlerArg) ==
  LET pathCheck == validatePath(pathArg)
      handlerCheck == validateHandler(handlerArg)
      message == IF pathCheck # "ok" THEN pathCheck ELSE handlerCheck
      built == routerBuildTree(treeByMethod, "GET", pathArg.v, handlerArg.v)
      call == [op |-> "get", method |-> "GET", pathType |-> pathArg.type, path |-> pathArg.v,
               handlerType |-> handlerArg.type,
               handler |-> IF handlerArg.type = "function" THEN handlerArg.v ELSE "none",
               outcome |-> "ok", message |-> "", calls |-> <<>>]
  IN IF message # "ok"
     THEN /\ last' = [call EXCEPT !.outcome = "AssertionError", !.message = message]
          /\ UNCHANGED <<treeByMethod, notFondHandler, registered>>
     ELSE /\ Len(registered) < MaxRoutes
          /\ treeByMethod' = built.treeByMethod
          /\ IF built.threw
             THEN /\ last' = [call EXCEPT !.outcome = "TypeError"]
                  /\ UNCHANGED registered
             ELSE /\ last' = call
                  /\ registered' = Append(registered, [path |-> pathArg.v, handler |-> handlerArg.v])
          /\ UNCHANGED notFondHandler

\* router.lookup(method, path)
lookup(method, path) ==
  LET effect == lookupEffect(treeByMethod, notFondHandler, method, path)
  IN /\ last' = [op |-> "lookup", method |-> method, pathType |-> "string", path |-> path,
                 handlerType |-> "function", handler |-> "none",
                 outcome |-> effect.outcome, message |-> "", calls |-> effect.calls]
     /\ UNCHANGED <<treeByMethod, notFondHandler, registered>>

Get ==
  \E pathArg \in PathArgs, handlerArg \in HandlerArgs(Len(registered) + 1) :
    get(pathArg, handlerArg)

Lookup == \E method \in Methods, path \in LookupPaths : lookup(method, path)

Next == Get \/ Lookup

Spec == Init /\ [][Next]_vars

----------------------------------------------------------------------------
(* Vocabulary of the properties *)

\* a path without a dynamic segment
IsLiteral(path) == \A k \in 1 .. Len(path) : path[k] # ":"

\* the handlers that get() calls which completed gave for a path
HandlersOf(path) ==
  {registered[k].handler : k \in {j \in 1 .. Len(registered) : registered[j].path = path}}

RegisteredPaths == {registered[k].path : k \in 1 .. Len(registered)}

\* the last operation was lookup(method, _)
LookedUp(method) == last.op = "lookup" /\ last.method = method

\* the last operation returned normally after calling fn(arg), and nothing else
Called(fn, arg) == last.outcome = "ok" /\ last.calls = <<[fn |-> fn, arg |-> arg]>>

\* values a dynamic segment is given in a request path: not empty, no "/", no "?"
Values == {<<"1">>, <<"2">>, <<"b">>, <<"1", "2">>}

\* the pattern with its k first `:name` tokens replaced by values[1..k]
RECURSIVE instantiateFrom(_, _, _, _)
instantiateFrom(pattern, params, values, k) ==
  IF k = 0 THEN pattern
  ELSE instantiateFrom(
         slice(pattern, 0, params[k].startIndex) \o values[k]
           \o slice(pattern, params[k].endIndex, Len(pattern)),
         params, values, k - 1)

Instantiate(pattern, values) ==
  instantiateFrom(pattern, parseParams(pattern), values, Len(parseParams(pattern)))

\* the mapping from every parameter name of the pattern to its value
MappingOf(pattern, values) ==
  [k \in 1 .. Len(parseParams(pattern)) |->
     [name |-> parseParams(pattern)[k].name, value |-> values[k]]]

ValuesFor(pattern) == [1 .. Len(parseParams(pattern)) -> Values]

----------------------------------------------------------------------------
(* C1 *)

\* C1: after any sequence of get() calls that completed, looking up with GET a
\* registered path without dynamic segment calls a handler registered for that
\* path, once, with an empty parameter mapping, and nothing else.
C1_LiteralRouteIsFound ==
  (LookedUp("GET") /\ IsLiteral(last.path) /\ last.path \in RegisteredPaths)
    => \E h \in HandlersOf(last.path) : Called(h, ParamsArg(<<>>))

----------------------------------------------------------------------------
(* C2 *)

\* C2: when the only route is a pattern with one dynamic segment, looking up
\* with GET the pattern with `:name` replaced by a value calls the route's
\* handler, once, with the mapping { name: value }.
C2_SingleParamLookup ==
  (Len(registered) = 1 /\ Len(parseParams(registered[1].path)) = 1 /\ LookedUp("GET"))
    => \A values \in ValuesFor(registered[1].path) :
         last.path = Instantiate(registered[1].path, values)
           => Called(registered[1].handler,
                     ParamsArg(MappingOf(registered[1].path, values)))

C2_Witness ==
  /\ registered = <<[path |-> <<"/", "a", "/", ":", "x">>, handler |-> "h1"]>>
  /\ LookedUp("GET")
  /\ last.path = <<"/", "a", "/", "1", "2">>
  /\ last.calls[1].arg.params = <<[name |-> <<"x">>, value |-> <<"1", "2">>]>>

----------------------------------------------------------------------------
(* C3 *)

\* the last get() call that completed for the path
LatestHandlerOf(path) ==
  LET ks == {k \in 1 .. Len(registered) : registered[k].path = path}
  IN registered[CHOOSE k \in ks : \A j \in ks : j <= k].handler

\* C3: once a path was registered with one handler and later with another, a
\* lookup of the path with GET calls the later handler and never the earlier
\* one; and the later registration raises nothing.
C3_LastRegistrationWins ==
  /\ (LookedUp("GET") /\ Cardinality(HandlersOf(last.path)) > 1)
       => (/\ last.outcome = "ok"
           /\ Len(last.calls) = 1
           /\ last.calls[1].fn = LatestHandlerOf(last.path))
  /\ (/\ last.op = "get"
      /\ last.pathType = "string"
      /\ last.handlerType = "function"
      /\ HandlersOf(last.path) \ {last.handler} # {})
       => last.outcome = "ok"

----------------------------------------------------------------------------
(* C4 *)

\* the pattern with every `:name` token taken out
Collapsed(pattern) ==
  Instantiate(pattern, [k \in 1 .. Len(parseParams(pattern)) |-> <<>>])

\* every node of the tree is keyed by a prefix of the collapsed pattern
TrieIsCollapsed(tree, pattern) ==
  \A pathFragment \in DOMAIN tree :
    pathFragment = slice(Collapsed(pattern), 0, Len(pathFragment))

\* C4: when the only route is a pattern with two or more dynamic segments,
\* looking up with GET the pattern with every `:name` replaced by a value calls
\* the route's handler, once, with the mapping from every name to its value;
\* and the trie holds the characters of the collapsed pattern only.
C4_MultiParamLookup ==
  (Len(registered) = 1 /\ Len(parseParams(registered[1].path)) >= 2 /\ LookedUp("GET"))
    => \A values \in ValuesFor(registered[1].path) :
         last.path = Instantiate(registered[1].path, values)
           => /\ Called(registered[1].handler,
                        ParamsArg(MappingOf(registered[1].path, values)))
              /\ TrieIsCollapsed(treeByMethod["GET"], registered[1].path)

----------------------------------------------------------------------------
(* C5 *)

OnlyLiteralRoutes == \A k \in 1 .. Len(registered) : IsLiteral(registered[k].path)

DistinctPaths ==
  \A j, k \in 1 .. Len(registered) : registered[j].path = registered[k].path => j = k

\* C5: with literal routes of pairwise distinct paths only, a lookup with GET
\* calls no handler that was registered under a path other than the normalized
\* request path.
C5_OnlyOwnHandler ==
  (OnlyLiteralRoutes /\ DistinctPaths /\ LookedUp("GET"))
    => \A c \in 1 .. Len(last.calls) :
         \A k \in 1 .. Len(registered) :
           registered[k].handler = last.calls[c].fn
             => registered[k].path = clearPath(last.path)

C5_Witness ==
  /\ registered = << [path |-> <<"/", "a">>, handler |-> "h1"],
                     [path |-> <<"/", "a", "/", "b">>, handler |-> "h2"] >>
  /\ LookedUp("GET")
  /\ last.path = <<"/", "a", "/", "b", "/">>
  /\ last.calls[1].fn = "h2"

----------------------------------------------------------------------------
(* C6 *)

\* C6: every lookup returns normally after calling exactly one function once:
\* a registered handler or the not-found handler, and the not-found handler
\* when the method has no trie.
C6_LookupCallsOneHandler ==
  last.op = "lookup"
    => /\ last.outcome = "ok"
       /\ Len(last.calls) = 1
       /\ \/ last.calls[1] = [fn |-> notFondHandler, arg |-> UndefinedArg]
          \/ \E k \in 1 .. Len(registered) : last.calls[1].fn = registered[k].handler
       /\ last.method \notin DOMAIN treeByMethod
            => last.calls[1] = [fn |-> notFondHandler, arg |-> UndefinedArg]

----------------------------------------------------------------------------
(* C7 *)

\* the get() calls that the interface says are refused
MustReject(call) ==
  \/ call.pathType # "string"
  \/ ~startsWith(call.path, "/")
  \/ (Len(call.path) > 1 /\ endsWith(call.path, "/"))
  \/ endsWith(call.path, ":")
  \/ call.handlerType # "function"

Rejected(call) == call.op = "get" /\ call.outcome = "AssertionError"

\* C7: a get() call with a path that is no string, does not start with "/",
\* ends with "/" while longer than one character or ends with ":", or with a
\* handler that is no function, is rejected; and a rejected call leaves the
\* method tries, their nodes and the registrations as they were.
C7_RejectedGetChangesNothing ==
  [][ /\ (last'.op = "get" /\ MustReject(last')) => Rejected(last')
      /\ Rejected(last') => UNCHANGED <<treeByMethod, notFondHandler, registered>>
    ]_vars

C7_Witness ==
  /\ Rejected(last)
  /\ last.message = "path can't end with :"
  /\ Len(registered) = 1

----------------------------------------------------------------------------
(* C8 *)

\* the last operation did what lookup(last.method, path) does in this state
SameAsLookupOf(path) ==
  [outcome |-> last.outcome, calls |-> last.calls]
    = lookupEffect(treeByMethod, notFondHandler, last.method, path)

\* the last operation was lookup(_, q + "/") for a non-empty q
LookedUpWithSlash ==
  last.op = "lookup" /\ Len(last.path) >= 2 /\ endsWith(last.path, "/")

WithoutSlash(path) == slice(path, 0, Len(path) - 1)

\* C8 as stated: for every non-empty q, lookup(method, q + "/") calls what
\* lookup(method, q) calls, with the same argument.
C8_TrailingSlashOfAnyPath ==
  LookedUpWithSlash => SameAsLookupOf(WithoutSlash(last.path))

\* C8, amended: for every non-empty q that is one character long or does not
\* end with "/", lookup(method, q + "/") calls what lookup(method, q) calls,
\* with the same argument.
C8_TrailingSlash ==
  (/\ LookedUpWithSlash
   /\ \/ Len(WithoutSlash(last.path)) = 1
      \/ ~endsWith(WithoutSlash(last.path), "/"))
    => SameAsLookupOf(WithoutSlash(last.path))

C8_Witness ==
  /\ registered = <<[path |-> <<"/", "a">>, handler |-> "h1"]>>
  /\ LookedUp("GET")
  /\ last.path = <<"/", "a", "/">>
  /\ last.calls[1].fn = "h1"

----------------------------------------------------------------------------
(* C9 *)

\* C9: when the only route is a pattern that ends with its one dynamic
\* segment, looking up with GET the pattern with `:name` replaced by a value
\* and followed by "/" and more characters calls the not-found handler and not
\* the route's handler.
C9_NoMatchPastTrailingParam ==
  (/\ Len(registered) = 1
   /\ Len(parseParams(registered[1].path)) = 1
   /\ parseParams(registered[1].path)[1].endIndex = Len(registered[1].path)
   /\ LookedUp("GET"))
    => \A values \in ValuesFor(registered[1].path), extra \in Values :
         last.path = Instantiate(registered[1].path, values) \o <<"/">> \o extra
           => Called(notFondHandler, UndefinedArg)

C9_Witness ==
  /\ registered = <<[path |-> <<"/", "a", "/", ":", "x">>, handler |-> "h1"]>>
  /\ LookedUp("GET")
  /\ last.path = <<"/", "a", "/", "1", "/", "b">>

----------------------------------------------------------------------------
(* C10 *)

\* C10: a get() call whose path and handler pass validation returns normally,
\* and afterwards the trie of GET has a Leaf with a handler at the collapsed
\* path.
C10_BuildNeverFails ==
  (last.op = "get" /\ ~MustReject(last))
    => /\ last.outcome = "ok"
       /\ "GET" \in DOMAIN treeByMethod
       /\ Collapsed(last.path) \in DOMAIN treeByMethod["GET"]
       /\ treeByMethod["GET"][Collapsed(last.path)].isLeaf
       /\ treeByMethod["GET"][Collapsed(last.path)].handler # "none"

----------------------------------------------------------------------------
(* C11 *)

\* route `lit` is the pattern of route `par`, which has one dynamic segment,
\* with a literal in the place of `:name`
LiteralBesideParam(lit, par) ==
  /\ IsLiteral(lit.path)
  /\ Len(parseParams(par.path)) = 1
  /\ \E values \in ValuesFor(par.path) : lit.path = Instantiate(par.path, values)

\* C11: when a literal route and a route with a dynamic segment that share the
\* prefix up to the segment are the two routes, in either order, a lookup of
\* the literal path calls the literal route's handler, and a lookup of the
\* pattern with another value calls the other route's handler with
\* { name: value }.
C11_LiteralWinsOverParam ==
  \A j, k \in 1 .. Len(registered) :
    (/\ Len(registered) = 2
     /\ LiteralBesideParam(registered[j], registered[k])
     /\ LookedUp("GET"))
      => /\ last.path = registered[j].path
              => (/\ last.outcome = "ok"
                  /\ Len(last.calls) = 1
                  /\ last.calls[1].fn = registered[j].handler)
         /\ \A values \in ValuesFor(registered[k].path) :
              (/\ last.path = Instantiate(registered[k].path, values)
               /\ last.path # registered[j].path)
                => Called(registered[k].handler,
                          ParamsArg(MappingOf(registered[k].path, values)))

----------------------------------------------------------------------------
(* C12 *)

\* the names a mapping has as keys
KeysOf(parsedParams) == {parsedParams[k].name : k \in 1 .. Len(parsedParams)}

\* the parameter names written in a pattern
NamesIn(pattern) ==
  {parseParams(pattern)[k].name : k \in 1 .. Len(parseParams(pattern))}

\* C12: whenever a lookup calls a registered handler, the keys of the mapping
\* it passes are the parameter names of the pattern that handler was
\* registered with, whatever was registered afterwards.
C12_ParamNamesOfOwnPattern ==
  last.op = "lookup"
    => \A c \in 1 .. Len(last.calls) :
         \A k \in 1 .. Len(registered) :
           registered[k].handler = last.calls[c].fn
             => /\ last.calls[c].arg.defined
                /\ KeysOf(last.calls[c].arg.params) = NamesIn(registered[k].path)

\* C12, the example: after /p/:x and then /p/:y of the same shape, a lookup
\* that calls the handler of the first passes its value under the name x.
C12_EarlierRouteKeepsItsName ==
  (/\ Len(registered) = 2
   /\ Len(parseParams(registered[1].path)) = 1
   /\ Len(parseParams(registered[2].path)) = 1
   /\ Collapsed(registered[1].path) = Collapsed(registered[2].path)
   /\ LookedUp("GET")
   /\ Len(last.calls) = 1
   /\ last.calls[1].fn = registered[1].handler)
    => KeysOf(last.calls[1].arg.params) = NamesIn(registered[1].path)

====
